---- MODULE Spec2Model ----
(***************************************************************************)
(* Model of changed_filter.py: ChangedFilterCommand, a Sublime Text window *)
(* command that parses `git status --porcelain`, classifies the changed    *)
(* files as staged / unstaged, and drives a two-level quick panel          *)
(* (filter menu, then file menu).                                          *)
(*                                                                         *)
(* Text is modelled as a sequence of one-character strings, so that        *)
(* str.strip, str.split, slicing and quoting are computed, not assumed.    *)
(***************************************************************************)
EXTENDS Integers, Sequences, FiniteSets, TLC

\* ------------------------------------------------------------------------
\* Bounds and input alphabet
\* ------------------------------------------------------------------------

\* Largest number of lines in one status output.
MaxLines == 3

\* Python's None for a field that holds text.
None == <<"None">>

NL == "\n"
QUOTE == "\""

\* Two-character porcelain status codes: worktree-modified, index-modified,
\* partially staged, untracked.
StatusCodes == { <<" ", "M">>, <<"M", " ">>, <<"M", "M">>, <<"?", "?">> }

\* Paths as git prints them: plain, inside a directory, quoted (has a space).
PathTexts == { <<"b">>, <<"a", "/", "b">>, <<QUOTE, "a", " ", "b", QUOTE>> }

\* Well-formed porcelain records "XY path".
RecordLines == { st \o <<" ">> \o p : st \in StatusCodes, p \in PathTexts }

\* Malformed lines shorter than a record: a blank line, a bare status.
ShortLines == { <<>>, <<"?", "?">> }

Lines == RecordLines \cup ShortLines

RECURSIVE SeqsUpTo(_, _)
SeqsUpTo(S, n) ==
  IF n = 0 THEN { <<>> }
  ELSE LET shorter == SeqsUpTo(S, n - 1)
       IN  shorter \cup { Append(s, x) : s \in { t \in shorter : Len(t) = n - 1 }, x \in S }

\* The text of a status output: every line terminated by a newline.
RECURSIVE Text(_)
Text(lines) ==
  IF lines = <<>> THEN <<>>
  ELSE Head(lines) \o <<NL>> \o Text(Tail(lines))

\* Outcomes of subprocess.run(['git', 'rev-parse', '--show-toplevel'], check=True).
RevParseOutcomes ==
  { [kind |-> "ok", stdout |-> <<"/", "r", NL>>],
    [kind |-> "CalledProcessError", stdout |-> <<>>],
    [kind |-> "FileNotFoundError", stdout |-> <<>>] }

\* Outcomes of subprocess.run(['git', 'status', '--porcelain'], check=True).
StatusOutcomes ==
  { [kind |-> "ok", stdout |-> Text(ls)] : ls \in SeqsUpTo(Lines, MaxLines) }
  \cup { [kind |-> "CalledProcessError", stdout |-> <<>>],
         [kind |-> "FileNotFoundError", stdout |-> <<>>] }

NotRun == [kind |-> "not run", stdout |-> <<>>]

\* ------------------------------------------------------------------------
\* Python string and list primitives
\* ------------------------------------------------------------------------

\* Code point of a character (ord).
Ord(c) ==
  CASE c = NL    -> 10
    [] c = " "   -> 32
    [] c = QUOTE -> 34
    [] c = "/"   -> 47
    [] c = "?"   -> 63
    [] c = "M"   -> 77
    [] c = "a"   -> 97
    [] c = "b"   -> 98
    [] c = "r"   -> 114

\* str.isspace for one character.
IsSpace(c) == c \in {" ", NL}

RECURSIVE LStrip(_)
LStrip(s) == IF s = <<>> THEN s
             ELSE IF IsSpace(Head(s)) THEN LStrip(Tail(s)) ELSE s

RECURSIVE RStrip(_)
RStrip(s) == IF s = <<>> THEN s
             ELSE IF IsSpace(s[Len(s)]) THEN RStrip(SubSeq(s, 1, Len(s) - 1)) ELSE s

\* str.strip(): remove leading and trailing whitespace.
Strip(s) == RStrip(LStrip(s))

\* str.split('\n')
RECURSIVE Split(_)
Split(s) ==
  IF \A i \in 1..Len(s) : s[i] # NL THEN << s >>
  ELSE LET k == CHOOSE i \in 1..Len(s) : s[i] = NL /\ \A j \in 1..(i - 1) : s[j] # NL
       IN  << SubSeq(s, 1, k - 1) >> \o Split(SubSeq(s, k + 1, Len(s)))

\* s[n:]
SliceFrom(s, n) == SubSeq(s, n + 1, Len(s))

\* s[:n]
SliceTo(s, n) == SubSeq(s, 1, IF n < Len(s) THEN n ELSE Len(s))

\* seq[i] with Python's negative indices.
PyIndex(seq, i) == IF i < 0 THEN seq[Len(seq) + i + 1] ELSE seq[i + 1]

\* a < b for str: lexicographic by code point.
RECURSIVE StrLess(_, _)
StrLess(a, b) ==
  IF b = <<>> THEN FALSE
  ELSE IF a = <<>> THEN TRUE
  ELSE IF Ord(Head(a)) < Ord(Head(b)) THEN TRUE
  ELSE IF Ord(Head(a)) > Ord(Head(b)) THEN FALSE
  ELSE StrLess(Tail(a), Tail(b))

\* list.sort() is stable: x goes after every element that is not greater.
RECURSIVE InsertPath(_, _)
InsertPath(sorted, x) ==
  IF sorted = <<>> THEN << x >>
  ELSE IF StrLess(x, Head(sorted)) THEN << x >> \o sorted
  ELSE << Head(sorted) >> \o InsertPath(Tail(sorted), x)

\* The same with key=lambda x: x[0] on (path, status) tuples.
RECURSIVE InsertRecord(_, _)
InsertRecord(sorted, x) ==
  IF sorted = <<>> THEN << x >>
  ELSE IF StrLess(x[1], Head(sorted)[1]) THEN << x >> \o sorted
  ELSE << Head(sorted) >> \o InsertRecord(Tail(sorted), x)

\* self.all_files.sort(key=lambda x: x[0])
RECURSIVE sort_all_files(_)
sort_all_files(s) ==
  IF s = <<>> THEN <<>>
  ELSE InsertRecord(sort_all_files(SubSeq(s, 1, Len(s) - 1)), s[Len(s)])

\* The lists left in the order the lines were read.
sort_paths_skipped(s) == s

\* self.staged_files.sort() / self.unstaged_files.sort()
RECURSIVE sort_paths(_)
sort_paths(s) ==
  IF s = <<>> THEN <<>>
  ELSE InsertPath(sort_paths(SubSeq(s, 1, Len(s) - 1)), s[Len(s)])

\* os.path.join(a, b) on POSIX.
os_path_join(a, b) ==
  IF b # <<>> /\ Head(b) = "/" THEN b
  ELSE IF a = <<>> \/ a[Len(a)] = "/" THEN a \o b
  ELSE a \o <<"/">> \o b

\* ------------------------------------------------------------------------
\* _get_changed_files
\* ------------------------------------------------------------------------

\* The length test off by one: a bare two-character status passes.
too_short_below_two(line) == Len(line) < 2

\* if len(line) < 3: continue
too_short(line) == Len(line) < 3

\* Remove quotes if present.
unquote(file_path) ==
  IF file_path # <<>> /\ Head(file_path) = QUOTE /\ file_path[Len(file_path)] = QUOTE
  THEN SubSeq(file_path, 2, Len(file_path) - 1)
  ELSE file_path

\* Staged: first character is not space or ?
is_staged(status) == status[1] \notin {" ", "?"}

\* Unstaged only when nothing is staged: a partially staged file is missed.
is_unstaged_clean_index(status) ==
  (status[1] = " " /\ status[2] # " ") \/ status = <<"?", "?">>

\* Unstaged: second character is not space OR untracked
is_unstaged(status) == status[2] # " " \/ status = <<"?", "?">>

EmptyFiles == [all_files |-> <<>>, staged_files |-> <<>>, unstaged_files |-> <<>>]

\* The tuple built the other way round.
record_of_swapped(file_path, status) == << status, file_path >>

\* self.all_files.append((file_path, status))
record_of(file_path, status) == << file_path, status >>

\* Success reported whatever was collected.
changed_ret_always(files) == TRUE

\* return len(self.all_files) > 0
changed_ret(files) == Len(files) > 0

\* The body of `for line in output.split('\n')`.
RECURSIVE parse_lines(_, _)
parse_lines(lines, acc) ==
  IF lines = <<>> THEN acc
  ELSE LET line == Head(lines)
       IN  IF too_short(line) THEN parse_lines(Tail(lines), acc)
           ELSE LET status    == SliceTo(line, 2)
                    file_path == unquote(Strip(SliceFrom(line, 3)))
                IN  parse_lines(Tail(lines),
                      [all_files      |-> Append(acc.all_files, record_of(file_path, status)),
                       staged_files   |-> IF is_staged(status)
                                          THEN Append(acc.staged_files, file_path)
                                          ELSE acc.staged_files,
                       unstaged_files |-> IF is_unstaged(status)
                                          THEN Append(acc.unstaged_files, file_path)
                                          ELSE acc.unstaged_files])

\* Result of _get_changed_files for one outcome of the status query:
\* the return value, the three collections, and the messages it shows.
get_changed_files(result) ==
  IF result.kind = "CalledProcessError"
    THEN [ret |-> FALSE, files |-> EmptyFiles, errors |-> << "Error running git" >>]
  ELSE IF result.kind = "FileNotFoundError"
    THEN [ret |-> FALSE, files |-> EmptyFiles, errors |-> << "Git not found in PATH" >>]
  ELSE LET output == Strip(result.stdout)
       IN  IF output = <<>>
             THEN [ret |-> FALSE, files |-> EmptyFiles, errors |-> <<>>]
           ELSE LET parsed == parse_lines(Split(output), EmptyFiles)
                    files  == [all_files      |-> sort_all_files(parsed.all_files),
                               staged_files   |-> sort_paths(parsed.staged_files),
                               unstaged_files |-> sort_paths(parsed.unstaged_files)]
                IN  [ret |-> changed_ret(files.all_files), files |-> files, errors |-> <<>>]

\* ------------------------------------------------------------------------
\* State
\* ------------------------------------------------------------------------

VARIABLES
  git_root,        \* self.git_root
  all_files,       \* self.all_files: list of (path, status)
  staged_files,    \* self.staged_files
  unstaged_files,  \* self.unstaged_files
  current_level,   \* self.current_level
  selected_filter, \* self.selected_filter
  panel,           \* the quick panel the window shows, with its callback
  opened,          \* paths handed to window.open_file
  calls,           \* calls made on the window by the last handler
  invoked,         \* run() has been called
  status_result,   \* what the status query returned to run()
  last_event,      \* the callback and index last delivered by the window
  rev_parse_result, \* what the root query returned to run()
  earlier          \* a menu of an earlier run() that still awaits its
                   \* callback, with the fields that run() had set

vars == << git_root, all_files, staged_files, unstaged_files, current_level,
           selected_filter, panel, opened, calls, invoked, status_result,
           last_event, rev_parse_result, earlier >>

fields == << git_root, all_files, staged_files, unstaged_files, current_level >>

\* A menu handler that clears the staged list it has shown.
menu_frame_clearing_staged ==
  /\ staged_files' = <<>>
  /\ UNCHANGED << git_root, all_files, unstaged_files, current_level >>

\* The menu handlers assign none of the fields that run() has set.
menu_frame == UNCHANGED << git_root, all_files, staged_files, unstaged_files, current_level >>

\* No quick panel is open.
NoPanel == [items |-> <<>>, on_select |-> "closed", placeholder |-> ""]

NoEvent == [callback |-> "none", index |-> -1]

\* There has been no earlier run().
NoEarlier == [panel |-> [items |-> <<>>, on_select |-> "none", placeholder |-> ""],
              git_root |-> None, all_files |-> <<>>,
              staged_files |-> <<>>, unstaged_files |-> <<>>, selected_filter |-> "None"]

\* The menu of the earlier run() has had its callback and is closed.
EarlierClosed == [NoEarlier EXCEPT !.panel = NoPanel]

\* window.show_quick_panel(items, on_select, placeholder=...)
ShowQuickPanel(p) == [op |-> "show_quick_panel", panel |-> p, path |-> <<>>]

\* window.open_file(full_path)
OpenFile(full_path) == [op |-> "open_file", panel |-> NoPanel, path |-> full_path]

\* ------------------------------------------------------------------------
\* _show_error, _show_filter_selection, _show_file_list
\* ------------------------------------------------------------------------

\* _show_error(message): a single-item panel without callback.
show_error(message) ==
  [items |-> << << message >> >>, on_select |-> "None", placeholder |-> "Changed Filter |"]

\* The count of records instead of the count of different paths.
all_count_records(files) == Len(files)

\* all_count = len(set([f[0] for f in self.all_files]))
all_count(files) == Cardinality({ files[i][1] : i \in DOMAIN files })

\* The panel _show_filter_selection builds from the collections.
show_filter_selection(files, staged, unstaged) ==
  [items |-> << [label |-> "All Changes", count |-> all_count(files),
                 detail |-> "Show all staged and unstaged files"],
                [label |-> "Staged Only", count |-> Len(staged),
                 detail |-> "Show only files in the staging area"],
                [label |-> "Unstaged Only", count |-> Len(unstaged),
                 detail |-> "Show only unstaged changes and untracked files"] >>,
   on_select |-> "_on_filter_selected",
   placeholder |-> "Changed Filter |"]

\* files = [f for f in files if not (f in seen or seen.add(f))]
RECURSIVE remove_duplicates(_)
remove_duplicates(s) ==
  IF s = <<>> THEN <<>>
  ELSE LET init == remove_duplicates(SubSeq(s, 1, Len(s) - 1))
           x    == s[Len(s)]
       IN  IF \E i \in DOMAIN init : init[i] = x THEN init ELSE Append(init, x)

\* [f[0] for f in self.all_files]
paths_of(files) == [i \in DOMAIN files |-> files[i][1]]

\* The 'all' branch copied from the 'staged' one.
shown_files_all_as_staged(filter) ==
  IF filter = "all" THEN staged_files
  ELSE IF filter = "staged" THEN staged_files
  ELSE unstaged_files

\* The list _show_file_list presents for the selected filter.
shown_files(filter) ==
  IF filter = "all" THEN remove_duplicates(paths_of(all_files))
  ELSE IF filter = "staged" THEN staged_files
  ELSE unstaged_files

\* The list indexed without removing the duplicates that the menu removed.
selected_files_with_duplicates(filter) ==
  IF filter = "all" THEN paths_of(all_files)
  ELSE IF filter = "staged" THEN staged_files
  ELSE unstaged_files

\* The list _on_file_selected indexes for the selected filter.
selected_files(filter) ==
  IF filter = "all" THEN remove_duplicates(paths_of(all_files))
  ELSE IF filter = "staged" THEN staged_files
  ELSE unstaged_files

filter_name(filter) ==
  IF filter = "all" THEN "All Changes"
  ELSE IF filter = "staged" THEN "Staged Only"
  ELSE "Unstaged Only"

\* f"No {filter_name.lower()}"
no_files_message(name) ==
  CASE name = "All Changes"   -> "No all changes"
    [] name = "Staged Only"   -> "No staged only"
    [] name = "Unstaged Only" -> "No unstaged only"

\* The emptiness test left out.
never_no_files(files) == FALSE

\* if not files
no_files(files) == files = <<>>

\* The panel _show_file_list opens for the selected filter.
show_file_list(filter) ==
  LET files == shown_files(filter)
  IN  IF no_files(files) THEN show_error(no_files_message(filter_name(filter)))
      ELSE [items |-> files, on_select |-> "_on_file_selected",
            placeholder |-> filter_name(filter)]

\* filter_types = ['all', 'staged', 'unstaged']
filter_types == << "all", "staged", "unstaged" >>

\* The cancel test left out: -1 is used as an index.
never_cancel(index) == FALSE

\* if index == -1
is_cancel(index) == index = -1

\* ------------------------------------------------------------------------
\* Initial state and handlers
\* ------------------------------------------------------------------------

Init ==
  /\ git_root = None
  /\ all_files = <<>>
  /\ staged_files = <<>>
  /\ unstaged_files = <<>>
  /\ current_level = "filter"
  /\ selected_filter = "None"
  /\ panel = NoPanel
  /\ opened = <<>>
  /\ calls = <<>>
  /\ invoked = FALSE
  /\ status_result = NotRun
  /\ last_event = NoEvent
  /\ rev_parse_result = NotRun
  /\ earlier = NoEarlier

\* The failure of the root query swallowed: True is returned anyway.
check_git_repo_trusting(result) ==
  IF result.kind = "ok" THEN [ret |-> TRUE, git_root |-> Strip(result.stdout)]
  ELSE [ret |-> TRUE, git_root |-> None]

\* _check_git_repo: the root on success, None when git fails or is missing.
check_git_repo(result) ==
  IF result.kind = "ok" THEN [ret |-> TRUE, git_root |-> Strip(result.stdout)]
  ELSE [ret |-> FALSE, git_root |-> None]

\* The panels a handler shows, as window calls.
show_all(messages) == [i \in DOMAIN messages |-> ShowQuickPanel(show_error(messages[i]))]

\* run(): reset the fields, resolve the root, read the status, show the
\* filter menu; every failure is shown with _show_error.
run(rev_parse, status) ==
  /\ invoked' = TRUE
  /\ rev_parse_result' = rev_parse
  /\ current_level' = "filter"
  /\ selected_filter' = "None"
  /\ last_event' = [callback |-> "run", index |-> -1]
  /\ opened' = opened
  /\ LET repo == check_git_repo(rev_parse)
     IN  /\ git_root' = repo.git_root
         /\ IF ~repo.ret
            THEN /\ all_files' = <<>>
                 /\ staged_files' = <<>>
                 /\ unstaged_files' = <<>>
                 /\ status_result' = NotRun
                 /\ calls' = show_all(<< "Not in a git repository" >>)
                 /\ panel' = show_error("Not in a git repository")
            ELSE LET changed == get_changed_files(status)
                 IN  /\ all_files' = changed.files.all_files
                     /\ staged_files' = changed.files.staged_files
                     /\ unstaged_files' = changed.files.unstaged_files
                     /\ status_result' = status
                     /\ IF ~changed.ret
                        THEN /\ calls' = show_all(Append(changed.errors, "No changed files"))
                             /\ panel' = show_error("No changed files")
                        ELSE LET menu == show_filter_selection(changed.files.all_files,
                                                               changed.files.staged_files,
                                                               changed.files.unstaged_files)
                             IN  /\ calls' = << ShowQuickPanel(menu) >>
                                 /\ panel' = menu

\* _on_filter_selected(index): the filter menu closes; a cancel ends the
\* session, a choice sets the filter and shows its files.
on_filter_selected(index) ==
  /\ panel.on_select = "_on_filter_selected"
  /\ last_event' = [callback |-> "_on_filter_selected", index |-> index]
  /\ menu_frame
  /\ UNCHANGED << opened, invoked, status_result, rev_parse_result, earlier >>
  /\ IF is_cancel(index)
     THEN /\ selected_filter' = selected_filter
          /\ panel' = NoPanel
          /\ calls' = <<>>
     ELSE LET filter == PyIndex(filter_types, index)
          IN  /\ selected_filter' = filter
              /\ panel' = show_file_list(filter)
              /\ calls' = << ShowQuickPanel(show_file_list(filter)) >>

\* _on_file_selected(index): the file menu closes; a cancel shows the
\* filter menu again, a choice opens the file under the root.
on_file_selected(index) ==
  /\ panel.on_select = "_on_file_selected"
  /\ last_event' = [callback |-> "_on_file_selected", index |-> index]
  /\ menu_frame
  /\ UNCHANGED << selected_filter, invoked, status_result, rev_parse_result, earlier >>
  /\ IF is_cancel(index)
     THEN LET menu == show_filter_selection(all_files, staged_files, unstaged_files)
          IN  /\ panel' = menu
              /\ calls' = << ShowQuickPanel(menu) >>
              /\ opened' = opened
     ELSE LET file_path == PyIndex(selected_files(selected_filter), index)
              full_path == os_path_join(git_root, file_path)
          IN  /\ panel' = NoPanel
              /\ calls' = << OpenFile(full_path) >>
              /\ opened' = Append(opened, full_path)

\* A notice has no callback (on_select is None): closing it only closes it.
dismiss_notice ==
  /\ panel.on_select = "None"
  /\ panel' = NoPanel
  /\ calls' = <<>>
  /\ last_event' = [callback |-> "None", index |-> -1]
  /\ UNCHANGED << fields, selected_filter, opened, invoked, status_result,
                  rev_parse_result, earlier >>

Run ==
  /\ ~invoked
  /\ earlier' = earlier
  /\ \E rev_parse \in RevParseOutcomes, status \in StatusOutcomes : run(rev_parse, status)

OnFilterSelected == \E index \in -1..2 : on_filter_selected(index)

OnFileSelected == \E index \in -1..(Len(panel.items) - 1) : on_file_selected(index)

DismissNotice == dismiss_notice

Next == Run \/ OnFilterSelected \/ OnFileSelected \/ DismissNotice

Spec == Init /\ [][Next]_vars

\* ------------------------------------------------------------------------
\* What the status output says, read line by line without the parser
\* ------------------------------------------------------------------------

Range(s) == { s[i] : i \in DOMAIN s }

\* How many times each element occurs in a list.
BagOf(s) == [x \in Range(s) |-> Cardinality({ i \in DOMAIN s : s[i] = x })]

\* The status query ran and returned text.
Parsed == status_result.kind = "ok"

\* The lines of the status output as the query printed them.
RawLines == Split(status_result.stdout)

\* The lines that are long enough to be a record.
LongLines == SelectSeq(RawLines, LAMBDA l : Len(l) >= 3)

\* The characters after the separating space, without one pair of
\* wrapping double quotes.
LinePath(l) ==
  LET rest == SubSeq(l, 4, Len(l))
  IN  IF Len(rest) >= 1 /\ rest[1] = QUOTE /\ rest[Len(rest)] = QUOTE
      THEN SubSeq(rest, 2, Len(rest) - 1)
      ELSE rest

ChangeCode(c) == c \notin {" ", "?"}

PathsOfLines(P(_)) ==
  LET sel == SelectSeq(LongLines, P)
  IN  [i \in DOMAIN sel |-> LinePath(sel[i])]

IsSortedPaths(s) == \A i \in 1..(Len(s) - 1) : ~StrLess(s[i + 1], s[i])

NoDuplicates(s) == \A i, j \in DOMAIN s : i # j => s[i] # s[j]

\* The session is over: run() was called and no panel is open.
Ended == invoked /\ panel.on_select = "closed"

FileCancel == [callback |-> "_on_file_selected", index |-> -1]
FilterCancel == [callback |-> "_on_filter_selected", index |-> -1]

\* ------------------------------------------------------------------------
\* Claims
\* ------------------------------------------------------------------------

\* C1: every line of at least 3 characters, at any position of the status
\* output, puts its path in the staged collection exactly when its first
\* character is neither space nor '?': the staged collection holds the
\* paths of those lines and nothing else.
C1_StagedIffIndexStatus ==
  Parsed =>
    BagOf(staged_files) = BagOf(PathsOfLines(LAMBDA l : l[1] \notin {" ", "?"}))

\* C2: every line of at least 3 characters, at any position, puts its path
\* in the unstaged collection exactly when its second character is not a
\* space or its status is '??'.
C2_UnstagedIffWorktreeStatus ==
  Parsed =>
    BagOf(unstaged_files) =
      BagOf(PathsOfLines(LAMBDA l : l[2] # " " \/ SubSeq(l, 1, 2) = <<"?", "?">>))

\* C3: the record of a line of at least 3 characters has the line's first
\* two characters as status and the characters after the third one, less
\* one pair of wrapping double quotes, as path.
C3_RecordIsStatusAndPath ==
  Parsed =>
    BagOf(all_files) =
      BagOf([i \in DOMAIN LongLines |->
               << LinePath(LongLines[i]), SubSeq(LongLines[i], 1, 2) >>])

\* C4: after a successful parse the staged list, the unstaged list and the
\* list presented for the 'all' filter are in ascending order by path, and
\* the 'all' list holds every recorded path exactly once.
C4_SortedAndDeduplicated ==
  /\ IsSortedPaths(staged_files)
  /\ IsSortedPaths(unstaged_files)
  /\ (panel.on_select = "_on_file_selected" /\ selected_filter = "all") =>
       /\ IsSortedPaths(panel.items)
       /\ NoDuplicates(panel.items)
       /\ Range(panel.items) = { all_files[i][1] : i \in DOMAIN all_files }

\* C4 witness: the 'all' file menu is shown for records that repeat a path,
\* and the staged and unstaged lists each hold two different paths.
C4_Witness ==
  /\ panel.on_select = "_on_file_selected"
  /\ selected_filter = "all"
  /\ Len(panel.items) >= 2
  /\ Len(all_files) > Len(panel.items)
  /\ Cardinality(Range(staged_files)) >= 2
  /\ Cardinality(Range(unstaged_files)) >= 2

\* C5: the path of a line whose two status characters are both change
\* codes is in the staged list, in the unstaged list, and exactly once in
\* the list presented for the 'all' filter.
C5_PartiallyStagedInBoth ==
  Parsed =>
    \A i \in DOMAIN LongLines :
      LET l == LongLines[i]
      IN  (ChangeCode(l[1]) /\ ChangeCode(l[2])) =>
            /\ LinePath(l) \in Range(staged_files)
            /\ LinePath(l) \in Range(unstaged_files)
            /\ Cardinality({ k \in DOMAIN shown_files("all") :
                               shown_files("all")[k] = LinePath(l) }) = 1

\* C5 witness: a partially staged line was parsed next to other records,
\* and the filter menu is up.
C5_Witness ==
  /\ Parsed
  /\ panel.on_select = "_on_filter_selected"
  /\ Len(all_files) >= 2
  /\ \E i \in DOMAIN LongLines : SubSeq(LongLines[i], 1, 2) = <<"M", "M">>

\* C6: a line of fewer than 3 characters adds nothing to the all, staged
\* or unstaged collections: there are exactly as many records as lines of
\* at least 3 characters, and no more staged or unstaged entries than that.
C6_ShortLinesDiscarded ==
  Parsed =>
    /\ Len(all_files) = Len(LongLines)
    /\ Len(staged_files) <= Len(LongLines)
    /\ Len(unstaged_files) <= Len(LongLines)

\* C6 witness: the output had a short line before its last record, and
\* records were made.
C6_Witness ==
  /\ Parsed
  /\ all_files # <<>>
  /\ \E i \in DOMAIN RawLines :
       /\ Len(RawLines[i]) = 2
       /\ \E j \in DOMAIN RawLines : j > i /\ Len(RawLines[j]) >= 3

\* C7: a cancel in the file menu shows the filter menu again and leaves the
\* session running; a cancel in the filter menu ends the session with no
\* notice, no menu and no file opened; nothing happens after the end.
C7_CancelAsymmetry ==
  [][ /\ (panel.on_select = "_on_file_selected" /\ last_event' = FileCancel) =>
           /\ panel'.on_select = "_on_filter_selected"
           /\ calls' = << ShowQuickPanel(panel') >>
           /\ opened' = opened
      /\ (panel.on_select = "_on_filter_selected" /\ last_event' = FilterCancel) =>
           /\ panel'.on_select = "closed"
           /\ calls' = <<>>
           /\ opened' = opened
      /\ ~Ended
    ]_vars

\* C7 witness: the filter menu was cancelled after a filter had been chosen
\* and its file menu cancelled.
C7_Witness ==
  /\ last_event = FilterCancel
  /\ selected_filter # "None"
  /\ Ended
  /\ opened = <<>>

\* C8: choosing index i in the file menu of any filter opens exactly one
\* file, the root joined to the i-th path of the list on display, and ends
\* the session: no panel is open and nothing happens afterwards.
C8_OpenDisplayedPathOnce ==
  [][ /\ ( /\ panel.on_select = "_on_file_selected"
           /\ last_event'.callback = "_on_file_selected"
           /\ last_event'.index >= 0 ) =>
           LET shown == panel.items[last_event'.index + 1]
           IN  /\ opened' = << os_path_join(git_root, shown) >>
               /\ calls' = << OpenFile(os_path_join(git_root, shown)) >>
               /\ panel'.on_select = "closed"
      /\ ~Ended
    ]_vars

\* C8 witness: a file other than the first was opened from the 'all' menu
\* of records that repeat a path.
C8_Witness ==
  /\ Len(opened) = 1
  /\ Ended
  /\ selected_filter = "all"
  /\ last_event.callback = "_on_file_selected"
  /\ last_event.index >= 1
  /\ Len(all_files) > Cardinality({ all_files[i][1] : i \in DOMAIN all_files })

\* C9: whenever the filter menu is on display its labels carry the number
\* of different paths among the records, the size of the staged list and
\* the size of the unstaged list, which includes the untracked files.
C9_FilterMenuCounts ==
  panel.on_select = "_on_filter_selected" =>
    /\ Len(panel.items) = 3
    /\ panel.items[1].count = Cardinality({ all_files[i][1] : i \in DOMAIN all_files })
    /\ panel.items[2].count = Len(staged_files)
    /\ panel.items[3].count = Len(unstaged_files)
    /\ \A i \in DOMAIN all_files :
         all_files[i][2] = <<"?", "?">> => all_files[i][1] \in Range(unstaged_files)
    /\ calls = << ShowQuickPanel(panel) >>

\* C9 witness: the filter menu is shown again after a back-navigation, with
\* a repeated path and an untracked file among the records.
C9_Witness ==
  /\ panel.on_select = "_on_filter_selected"
  /\ last_event = FileCancel
  /\ Len(all_files) > Cardinality({ all_files[i][1] : i \in DOMAIN all_files })
  /\ \E i \in DOMAIN all_files : all_files[i][2] = <<"?", "?">>

\* C10: choosing a filter whose list is empty shows the notice for that
\* filter instead of a file menu and opens no file; closing the notice
\* leaves no panel, and nothing happens after that.
C10_EmptyCategoryNotice ==
  [][ /\ \A i \in 0..2 :
           ( /\ panel.on_select = "_on_filter_selected"
             /\ last_event' = [callback |-> "_on_filter_selected", index |-> i]
             /\ << all_files, staged_files, unstaged_files >>[i + 1] = <<>> ) =>
             /\ panel'.on_select = "None"
             /\ panel'.items =
                  << << << "No all changes", "No staged only", "No unstaged only" >>[i + 1] >> >>
             /\ calls' = << ShowQuickPanel(panel') >>
             /\ opened' = opened
      /\ panel.on_select = "None" =>
           /\ panel'.on_select = "closed"
           /\ calls' = <<>>
           /\ opened' = opened
      /\ ~Ended
    ]_vars

\* C10 witness: the notice of an empty filter is on display.
C10_Witness ==
  /\ panel.on_select = "None"
  /\ last_event.callback = "_on_filter_selected"
  /\ last_event.index \in 1..2
  /\ all_files # <<>>
  /\ opened = <<>>

\* ------------------------------------------------------------------------
\* Claims about failures, duplicates and the frame of the menus
\* ------------------------------------------------------------------------

\* The paths recorded in the all-collection.
AllPaths == { all_files[i][1] : i \in DOMAIN all_files }

\* The notice a panel carries.
NoticeOf(message) == << << message >> >>

\* run() met a collector failure: no repository, no tool, a tool error, or
\* a status output without a record.
Failure ==
  /\ invoked
  /\ \/ rev_parse_result.kind # "ok"
     \/ status_result.kind # "ok"
     \/ LongLines = <<>>

\* C11: when the status query succeeds with empty output, or with no line
\* of at least 3 characters, run() presents 'No changed files', and neither
\* the filter menu nor the file menu is ever on display.
C11_NoChangedFilesNotice ==
  (Parsed /\ LongLines = <<>>) =>
    /\ panel.on_select \notin {"_on_filter_selected", "_on_file_selected"}
    /\ last_event.callback = "run" =>
         /\ panel.on_select = "None"
         /\ panel.items = NoticeOf("No changed files")
         /\ calls = << ShowQuickPanel(panel) >>

\* C11 witness: an output of short lines only was answered with the notice.
C11_Witness ==
  /\ Parsed
  /\ status_result.stdout # <<>>
  /\ LongLines = <<>>
  /\ last_event.callback = "run"
  /\ panel.items = NoticeOf("No changed files")

\* C12: a failing run() presents exactly one notice, the one of the failure
\* that occurred; a status query that fails with a tool error or a missing
\* tool is not reported as 'No changed files'.
C12_OneNoticePerFailure ==
  (last_event.callback = "run" /\ Failure) =>
    /\ Len(calls) = 1
    /\ calls[1].op = "show_quick_panel"
    /\ calls[1].panel.on_select = "None"
    /\ rev_parse_result.kind = "CalledProcessError" =>
         calls[1].panel.items = NoticeOf("Not in a git repository")
    /\ status_result.kind = "CalledProcessError" =>
         calls[1].panel.items = NoticeOf("Error running git")
    /\ status_result.kind = "FileNotFoundError" =>
         calls[1].panel.items = NoticeOf("Git not found in PATH")
    /\ (Parsed /\ LongLines = <<>>) =>
         calls[1].panel.items = NoticeOf("No changed files")
    /\ panel = calls[1].panel

\* C13: when the root query cannot find the executable, the notice differs
\* from the one shown when the tool runs and reports no repository.
C13_ToolMissingDistinguished ==
  last_event.callback = "run" =>
    /\ rev_parse_result.kind = "CalledProcessError" =>
         panel.items = NoticeOf("Not in a git repository")
    /\ rev_parse_result.kind = "FileNotFoundError" =>
         /\ panel.on_select = "None"
         /\ panel.items # NoticeOf("Not in a git repository")

\* C15: after a collector failure the session is terminal: only notices are
\* shown, no filter or file menu is on display and no file is opened.
C15_FailureIsTerminal ==
  Failure =>
    /\ panel.on_select \in {"None", "closed"}
    /\ opened = <<>>
    /\ \A i \in DOMAIN calls :
         calls[i].op = "show_quick_panel" /\ calls[i].panel.on_select = "None"

\* C15 witness: the status query failed, the notice was shown and closed.
C15_Witness ==
  /\ Failure
  /\ status_result.kind = "CalledProcessError"
  /\ last_event.callback = "None"
  /\ panel.on_select = "closed"

\* C16: the list on display in the file menu of any filter holds no path
\* twice, also when the same path occurs on more than one status line.
C16_NoPathTwiceInFileMenu ==
  panel.on_select = "_on_file_selected" => NoDuplicates(panel.items)

\* C17: once run() has shown the filter menu, no step changes the root or
\* the all, staged and unstaged collections, and a filter menu shown again
\* carries the counts of the collections as they were before the step.
C17_MenusKeepCollections ==
  [][ invoked =>
        /\ git_root' = git_root
        /\ all_files' = all_files
        /\ staged_files' = staged_files
        /\ unstaged_files' = unstaged_files
        /\ panel'.on_select = "_on_filter_selected" =>
             /\ panel'.items[1].count = Cardinality(AllPaths)
             /\ panel'.items[2].count = Len(staged_files)
             /\ panel'.items[3].count = Len(unstaged_files)
    ]_vars

\* C17 witness: the filter menu is on display again after a file menu of a
\* non-empty staged list was cancelled.
C17_Witness ==
  /\ last_event = FileCancel
  /\ panel.on_select = "_on_filter_selected"
  /\ selected_filter = "staged"
  /\ staged_files # <<>>
  /\ unstaged_files # <<>>

\* C18: the filter menu is on display only with a non-empty all-collection;
\* choosing 'all' shows a non-empty file menu, and the empty-category
\* notice comes only from the 'staged' and 'unstaged' filters.
C18_AllFilterNeverEmpty ==
  /\ panel.on_select = "_on_filter_selected" => all_files # <<>>
  /\ last_event = [callback |-> "_on_filter_selected", index |-> 0] =>
       /\ panel.on_select = "_on_file_selected"
       /\ panel.items # <<>>
  /\ (last_event.callback = "_on_filter_selected" /\ panel.on_select = "None") =>
       /\ last_event.index \in {1, 2}
       /\ panel.items = NoticeOf(<< "No staged only", "No unstaged only" >>[last_event.index])

\* C18 witness: 'all' was chosen and shows files while the staged list is
\* empty, so that 'staged' would have led to the notice.
C18_Witness ==
  /\ last_event = [callback |-> "_on_filter_selected", index |-> 0]
  /\ panel.on_select = "_on_file_selected"
  /\ staged_files = <<>>

\* C19: every staged path and every unstaged path is a path of the
\* all-collection, so the 'all' count of the filter menu is at least the
\* number of different staged paths and of different unstaged paths.
C19_ClassifiedPathsAreRecorded ==
  /\ Range(staged_files) \subseteq AllPaths
  /\ Range(unstaged_files) \subseteq AllPaths
  /\ panel.on_select = "_on_filter_selected" =>
       /\ panel.items[1].count >= Cardinality(Range(staged_files))
       /\ panel.items[1].count >= Cardinality(Range(unstaged_files))

\* C19 witness: the filter menu shows a staged count and an unstaged count
\* that add up to more than the 'all' count.
C19_Witness ==
  /\ panel.on_select = "_on_filter_selected"
  /\ panel.items[2].count + panel.items[3].count > panel.items[1].count
  /\ panel.items[2].count >= 1
  /\ panel.items[3].count >= 1

\* ------------------------------------------------------------------------
\* Two invocations on one command object
\* ------------------------------------------------------------------------
\* A WindowCommand object serves every invocation in its window, and the
\* menu callbacks are its bound methods. A second run() while a menu still
\* awaits its callback resets the fields of the object; the window then
\* closes the menu it had on display, which delivers a cancel (-1) to it.

\* One-record status outputs, and the empty one.
SessionLines ==
  { st \o <<" ">> \o p : st \in { <<"M", " ">>, <<"?", "?">> },
                         p \in { <<"b">>, <<"a", "/", "b">> } }

SessionStatusOutcomes ==
  { [kind |-> "ok", stdout |-> Text(<< l >>)] : l \in SessionLines }
  \cup { [kind |-> "ok", stdout |-> <<>>] }

\* The second invocation may start in another repository.
SessionRevParseOutcomes ==
  RevParseOutcomes \cup { [kind |-> "ok", stdout |-> <<"/", "s", NL>>] }

\* _on_filter_selected(index) called back for the earlier menu: it reads
\* and writes the fields as the later run() left them.
earlier_on_filter_selected(index) ==
  /\ earlier.panel.on_select = "_on_filter_selected"
  /\ earlier' = EarlierClosed
  /\ last_event' = [callback |-> "_on_filter_selected", index |-> index]
  /\ menu_frame
  /\ UNCHANGED << opened, invoked, status_result, rev_parse_result >>
  /\ IF is_cancel(index)
     THEN /\ selected_filter' = selected_filter
          /\ panel' = panel
          /\ calls' = <<>>
     ELSE LET filter == PyIndex(filter_types, index)
          IN  /\ selected_filter' = filter
              /\ panel' = show_file_list(filter)
              /\ calls' = << ShowQuickPanel(show_file_list(filter)) >>

\* _on_file_selected(index) called back for the earlier menu; an index
\* beyond the current list raises IndexError and nothing is opened.
earlier_on_file_selected(index) ==
  /\ earlier.panel.on_select = "_on_file_selected"
  /\ earlier' = EarlierClosed
  /\ last_event' = [callback |-> "_on_file_selected", index |-> index]
  /\ menu_frame
  /\ UNCHANGED << selected_filter, invoked, status_result, rev_parse_result >>
  /\ IF is_cancel(index)
     THEN LET menu == show_filter_selection(all_files, staged_files, unstaged_files)
          IN  /\ panel' = menu
              /\ calls' = << ShowQuickPanel(menu) >>
              /\ opened' = opened
     ELSE IF index >= Len(selected_files(selected_filter))
     THEN /\ panel' = panel
          /\ calls' = <<>>
          /\ opened' = opened
     ELSE LET file_path == PyIndex(selected_files(selected_filter), index)
              full_path == os_path_join(git_root, file_path)
          IN  /\ panel' = panel
              /\ calls' = << OpenFile(full_path) >>
              /\ opened' = Append(opened, full_path)

RunFirst ==
  /\ ~invoked
  /\ earlier' = earlier
  /\ \E rev_parse \in SessionRevParseOutcomes, status \in SessionStatusOutcomes :
       run(rev_parse, status)

\* run() again, once, while a menu awaits its callback.
RunAgain ==
  /\ invoked
  /\ panel.on_select \in {"_on_filter_selected", "_on_file_selected"}
  /\ earlier = NoEarlier
  /\ earlier' = [panel |-> panel, git_root |-> git_root, all_files |-> all_files,
                 staged_files |-> staged_files, unstaged_files |-> unstaged_files,
                 selected_filter |-> selected_filter]
  /\ \E rev_parse \in SessionRevParseOutcomes, status \in SessionStatusOutcomes :
       run(rev_parse, status)

\* The window closes the earlier filter menu.
EarlierFilterCancelled == earlier_on_filter_selected(-1)

\* The window closes the earlier file menu.
EarlierFileCancelled == earlier_on_file_selected(-1)

NextTwo ==
  \/ RunFirst
  \/ RunAgain
  \/ OnFilterSelected
  \/ OnFileSelected
  \/ DismissNotice
  \/ EarlierFilterCancelled
  \/ EarlierFileCancelled

SpecTwo == Init /\ [][NextTwo]_vars

\* C14: two invocations whose steps interleave are independent sessions: a
\* cancel delivered to the menu of the earlier invocation is resolved
\* against that invocation's own collections (the filter menu shown again
\* carries its counts) and leaves the later invocation's panel alone.
C14_InvocationsIndependent ==
  [][ /\ ( /\ earlier.panel.on_select = "_on_file_selected"
           /\ earlier'.panel.on_select = "closed" ) =>
           /\ panel'.on_select = "_on_filter_selected"
           /\ panel'.items[1].count =
                Cardinality({ earlier.all_files[i][1] : i \in DOMAIN earlier.all_files })
           /\ panel'.items[2].count = Len(earlier.staged_files)
           /\ panel'.items[3].count = Len(earlier.unstaged_files)
      /\ ( /\ earlier.panel.on_select = "_on_filter_selected"
           /\ earlier'.panel.on_select = "closed" ) =>
           /\ panel' = panel
           /\ opened' = opened
    ]_vars

====
